---- MODULE Spec2Model ----
(***************************************************************************)
(* Commander state machine helper (PX4 Firmware):                          *)
(*   src/src/modules/commander/state_machine_helper.cpp                    *)
(* arming_state_transition, main_state_transition, hil_state_transition.   *)
(***************************************************************************)
EXTENDS Integers, Sequences, FiniteSets, TLC

VARIABLES
    status,            \* struct vehicle_status_s  (the shared status record)
    safety,            \* struct safety_s
    armed,             \* struct actuator_armed_s
    op,                \* the operation executed last
    req,               \* the state that operation was asked for
    ret,               \* transition_result_t of that operation
    pc,                \* position of the caller inside arming_state_transition
    irq,               \* TRUE while interrupts are masked (irqsave .. irqrestore)
    frame,             \* parameters and locals of the arming_state_transition in progress
    seen,              \* what a reader in another execution context read last
    diag,              \* the diagnostics emitted by the last call (or the one in progress)
    hpc,               \* position of the caller inside hil_state_transition
    hframe             \* parameters and locals of that hil_state_transition

vars == <<status, safety, armed, op, req, ret, pc, irq, frame, seen, diag,
          hpc, hframe>>

\* arming_state_t, in the order of state_names[] and of the table's columns
ARMING_STATE_INIT == 0
ARMING_STATE_STANDBY == 1
ARMING_STATE_ARMED == 2
ARMING_STATE_ARMED_ERROR == 3
ARMING_STATE_STANDBY_ERROR == 4
ARMING_STATE_REBOOT == 5
ARMING_STATE_IN_AIR_RESTORE == 6
ARMING_STATE_MAX == 7

ArmingStates == ARMING_STATE_INIT .. (ARMING_STATE_MAX - 1)

HIL_STATE_OFF == "HIL_STATE_OFF"
HIL_STATE_ON == "HIL_STATE_ON"
HilStates == {HIL_STATE_OFF, HIL_STATE_ON}

MAIN_STATE_MANUAL == "MAIN_STATE_MANUAL"
MAIN_STATE_ALTCTL == "MAIN_STATE_ALTCTL"
MAIN_STATE_POSCTL == "MAIN_STATE_POSCTL"
MAIN_STATE_AUTO_MISSION == "MAIN_STATE_AUTO_MISSION"
MAIN_STATE_AUTO_LOITER == "MAIN_STATE_AUTO_LOITER"
MAIN_STATE_AUTO_RTL == "MAIN_STATE_AUTO_RTL"
MAIN_STATE_ACRO == "MAIN_STATE_ACRO"
MainStates == {MAIN_STATE_MANUAL, MAIN_STATE_ALTCTL, MAIN_STATE_POSCTL,
               MAIN_STATE_AUTO_MISSION, MAIN_STATE_AUTO_LOITER,
               MAIN_STATE_AUTO_RTL, MAIN_STATE_ACRO}

NAVIGATION_STATE_MANUAL == "NAVIGATION_STATE_MANUAL"
NAVIGATION_STATE_ALTCTL == "NAVIGATION_STATE_ALTCTL"
NAVIGATION_STATE_POSCTL == "NAVIGATION_STATE_POSCTL"
NAVIGATION_STATE_AUTO_MISSION == "NAVIGATION_STATE_AUTO_MISSION"
NAVIGATION_STATE_AUTO_LOITER == "NAVIGATION_STATE_AUTO_LOITER"
NAVIGATION_STATE_AUTO_RTL == "NAVIGATION_STATE_AUTO_RTL"
NAVIGATION_STATE_ACRO == "NAVIGATION_STATE_ACRO"
NAVIGATION_STATE_LAND == "NAVIGATION_STATE_LAND"
NAVIGATION_STATE_DESCEND == "NAVIGATION_STATE_DESCEND"
NAVIGATION_STATE_TERMINATION == "NAVIGATION_STATE_TERMINATION"

TRANSITION_DENIED == "TRANSITION_DENIED"
TRANSITION_NOT_CHANGED == "TRANSITION_NOT_CHANGED"
TRANSITION_CHANGED == "TRANSITION_CHANGED"

\* the table with INIT allowed from ARMED
arming_transitions_armed_to_init ==
    <<  <<  TRUE,  TRUE,    TRUE,  FALSE,       FALSE,         FALSE,  FALSE >>,
        <<  TRUE,  TRUE,    TRUE,  TRUE,        FALSE,         FALSE,  FALSE >>,
        <<  FALSE, TRUE,    TRUE,  FALSE,       FALSE,         FALSE,  TRUE  >>,
        <<  FALSE, FALSE,   TRUE,  TRUE,        FALSE,         FALSE,  FALSE >>,
        <<  TRUE,  TRUE,    FALSE, TRUE,        TRUE,          FALSE,  FALSE >>,
        <<  TRUE,  TRUE,    FALSE, FALSE,       TRUE,          TRUE,   TRUE  >>,
        <<  FALSE, FALSE,   FALSE, FALSE,       FALSE,         FALSE,  FALSE >>
    >>

\* the table with IN_AIR_RESTORE allowed from ARMED
arming_transitions_in_air_restore ==
    <<  <<  TRUE,  TRUE,    FALSE, FALSE,       FALSE,         FALSE,  FALSE >>,
        <<  TRUE,  TRUE,    TRUE,  TRUE,        FALSE,         FALSE,  FALSE >>,
        <<  FALSE, TRUE,    TRUE,  FALSE,       FALSE,         FALSE,  TRUE  >>,
        <<  FALSE, FALSE,   TRUE,  TRUE,        FALSE,         FALSE,  FALSE >>,
        <<  TRUE,  TRUE,    FALSE, TRUE,        TRUE,          FALSE,  FALSE >>,
        <<  TRUE,  TRUE,    FALSE, FALSE,       TRUE,          TRUE,   TRUE  >>,
        <<  FALSE, FALSE,   TRUE,  FALSE,       FALSE,         FALSE,  FALSE >>
    >>

\* the table with STANDBY allowed from STANDBY_ERROR
arming_transitions_clear_error ==
    <<  <<  TRUE,  TRUE,    FALSE, FALSE,       FALSE,         FALSE,  FALSE >>,
        <<  TRUE,  TRUE,    TRUE,  TRUE,        TRUE,          FALSE,  FALSE >>,
        <<  FALSE, TRUE,    TRUE,  FALSE,       FALSE,         FALSE,  TRUE  >>,
        <<  FALSE, FALSE,   TRUE,  TRUE,        FALSE,         FALSE,  FALSE >>,
        <<  TRUE,  TRUE,    FALSE, TRUE,        TRUE,          FALSE,  FALSE >>,
        <<  TRUE,  TRUE,    FALSE, FALSE,       TRUE,          TRUE,   TRUE  >>,
        <<  FALSE, FALSE,   FALSE, FALSE,       FALSE,         FALSE,  FALSE >>
    >>

\* rows are the new state, columns are the current state
arming_transitions ==
    <<  \*  INIT,  STANDBY, ARMED, ARMED_ERROR, STANDBY_ERROR, REBOOT, IN_AIR_RESTORE
        <<  TRUE,  TRUE,    FALSE, FALSE,       FALSE,         FALSE,  FALSE >>,  \* INIT
        <<  TRUE,  TRUE,    TRUE,  TRUE,        FALSE,         FALSE,  FALSE >>,  \* STANDBY
        <<  FALSE, TRUE,    TRUE,  FALSE,       FALSE,         FALSE,  TRUE  >>,  \* ARMED
        <<  FALSE, FALSE,   TRUE,  TRUE,        FALSE,         FALSE,  FALSE >>,  \* ARMED_ERROR
        <<  TRUE,  TRUE,    FALSE, TRUE,        TRUE,          FALSE,  FALSE >>,  \* STANDBY_ERROR
        <<  TRUE,  TRUE,    FALSE, FALSE,       TRUE,          TRUE,   TRUE  >>,  \* REBOOT
        <<  FALSE, FALSE,   FALSE, FALSE,       FALSE,         FALSE,  FALSE >>   \* IN_AIR_RESTORE (NYI)
    >>

\* arming_transitions[new_arming_state][status->arming_state]  (line 122)
TableEntry(new, cur) == arming_transitions[new + 1][cur + 1]

\* the safety check without the exemption for HIL
NeedSafetySwitch_ignoring_hil(st, sf) ==
    /\ st.arming_state # ARMING_STATE_IN_AIR_RESTORE
    /\ sf.safety_switch_available
    /\ ~sf.safety_off

\* line 130: the safety switch has to be pressed first
NeedSafetySwitch(st, sf) ==
    /\ st.arming_state # ARMING_STATE_IN_AIR_RESTORE
    /\ st.hil_state = HIL_STATE_OFF
    /\ sf.safety_switch_available
    /\ ~sf.safety_off

\* no redirect of STANDBY to STANDBY_ERROR
RedirectedState_none(new, st) == new

\* lines 138-140: the value of new_arming_state after the secondary validation
RedirectedState(new, st) ==
    IF /\ TableEntry(new, st.arming_state)
       /\ new # ARMING_STATE_ARMED
       /\ new = ARMING_STATE_STANDBY
       /\ st.arming_state = ARMING_STATE_ARMED_ERROR
    THEN ARMING_STATE_STANDBY_ERROR
    ELSE new

\* lines 122-136: valid_transition after the table lookup and the safety check
SecondaryValidation(new, st, sf) ==
    /\ TableEntry(new, st.arming_state)
    /\ ~(new = ARMING_STATE_ARMED /\ NeedSafetySwitch(st, sf))

\* the override applied without looking at hil_state
HilStandbyOverride_always(v, new, st) ==
    IF new = ARMING_STATE_STANDBY THEN TRUE ELSE v

\* lines 143-146: HIL can always go to standby (new is the redirected state)
HilStandbyOverride(v, new, st) ==
    IF st.hil_state = HIL_STATE_ON /\ new = ARMING_STATE_STANDBY THEN TRUE ELSE v

\* the sensor check placed before the HIL override, which then undoes it
SensorsCheck_overridden(v, new, st) ==
    IF new = ARMING_STATE_STANDBY /\ ~st.condition_system_sensors_initialized
       /\ st.hil_state = HIL_STATE_OFF
    THEN FALSE ELSE v

\* lines 148-151: sensors need to be initialized for STANDBY state
SensorsCheck(v, new, st) ==
    IF new = ARMING_STATE_STANDBY /\ ~st.condition_system_sensors_initialized
    THEN FALSE ELSE v

\* lines 122-151: the final value of valid_transition
ValidTransition(new, st, sf) ==
    SensorsCheck(
        HilStandbyOverride(SecondaryValidation(new, st, sf),
                           RedirectedState(new, st), st),
        RedirectedState(new, st), st)

\* the test of hil_state inverted
Lockdown_inverted(st) == st.hil_state = HIL_STATE_OFF

\* lines 114-119: enforce lockdown in HIL
Lockdown(st) == st.hil_state = HIL_STATE_ON

\* lines 178-190
is_safe(st, sf, ar) ==
    IF \/ ~ar.armed
       \/ (ar.armed /\ ar.lockdown)
       \/ (sf.safety_switch_available /\ ~sf.safety_off)
    THEN TRUE
    ELSE FALSE

\* line 155
ArmedFor(new) == new = ARMING_STATE_ARMED \/ new = ARMING_STATE_ARMED_ERROR

\* ready_to_arm set for STANDBY only
ReadyToArmFor_standby_only(new) == new = ARMING_STATE_STANDBY

\* line 156
ReadyToArmFor(new) == new = ARMING_STATE_ARMED \/ new = ARMING_STATE_STANDBY

StatusFlags == {"condition_system_sensors_initialized", "is_rotary_wing",
                "condition_local_position_valid", "condition_local_altitude_valid",
                "condition_global_position_valid", "condition_home_position_valid"}

SafetyFlags == {"safety_switch_available", "safety_off"}

\* the textual representation of an arming_state_t (lines 80-88)
state_names ==
    << "ARMING_STATE_INIT",
       "ARMING_STATE_STANDBY",
       "ARMING_STATE_ARMED",
       "ARMING_STATE_ARMED_ERROR",
       "ARMING_STATE_STANDBY_ERROR",
       "ARMING_STATE_REBOOT",
       "ARMING_STATE_IN_AIR_RESTORE" >>

\* mavlink_fd, "0 for none"
MavlinkFds == {0, 3}

\* one message handed to a diagnostic sink
Message(sink, text, args) == [sink |-> sink, text |-> text, args |-> args]

\* lines 130-133: the message sent when the safety switch has to be pressed
SafetyDiagnostics(new, st, sf, mavlink_fd) ==
    IF /\ TableEntry(new, st.arming_state)
       /\ new = ARMING_STATE_ARMED
       /\ NeedSafetySwitch(st, sf)
       /\ mavlink_fd # 0
    THEN {Message("mavlink_log_critical",
                  "#audio: NOT ARMING: Press safety switch first.", <<>>)}
    ELSE {}

\* lines 165-173: the messages of a denied transition; cur is
\* status->arming_state and new the (redirected) new_arming_state
DeniedDiagnostics(result, cur, new, mavlink_fd) ==
    IF result = TRANSITION_DENIED
    THEN {Message("warnx", "Invalid arming transition from %s to %s",
                  <<state_names[cur + 1], state_names[new + 1]>>)}
         \cup (IF mavlink_fd # 0
                THEN {Message("mavlink_log_critical",
                              "Invalid arming transition from %s to %s",
                              <<state_names[cur + 1], state_names[new + 1]>>)}
                ELSE {})
    ELSE {}

\* the result of arming_state_transition (lines 106-157)
ArmingResult(new, st, sf) ==
    IF new = st.arming_state THEN TRANSITION_NOT_CHANGED
    ELSE IF ValidTransition(new, st, sf) THEN TRANSITION_CHANGED
    ELSE TRANSITION_DENIED

\* lines 130-173: everything one call of arming_state_transition emits
ArmingDiagnostics(new, st, sf, mavlink_fd) ==
    (IF new # st.arming_state THEN SafetyDiagnostics(new, st, sf, mavlink_fd) ELSE {})
    \cup DeniedDiagnostics(ArmingResult(new, st, sf), st.arming_state,
                           RedirectedState(new, st), mavlink_fd)

\* what a reader of the shared records gets
Snapshot == [arming_state |-> status.arming_state,
             armed |-> armed.armed,
             ready_to_arm |-> armed.ready_to_arm]

\* the frame of hil_state_transition before its first call
NoHilFrame == [new_state |-> HIL_STATE_OFF,
               ret |-> TRANSITION_DENIED,
               dir_ok |-> FALSE,
               entry |-> 1,
               failed |-> FALSE]

\* no arming_state_transition is in progress
NoFrame == [requested |-> ARMING_STATE_INIT,
            mavlink_fd |-> 0,
            new_arming_state |-> ARMING_STATE_INIT,
            valid_transition |-> FALSE,
            ret |-> TRANSITION_DENIED]

\* the commander's records at start-up
Init ==
    /\ status = [arming_state |-> ARMING_STATE_INIT,
                 hil_state |-> HIL_STATE_OFF,
                 main_state |-> MAIN_STATE_MANUAL,
                 condition_system_sensors_initialized |-> FALSE,
                 is_rotary_wing |-> FALSE,
                 condition_local_position_valid |-> FALSE,
                 condition_local_altitude_valid |-> FALSE,
                 condition_global_position_valid |-> FALSE,
                 condition_home_position_valid |-> FALSE,
                 rc_signal_lost |-> FALSE,
                 data_link_lost |-> FALSE,
                 nav_state |-> NAVIGATION_STATE_MANUAL,
                 failsafe |-> FALSE]
    /\ safety = [safety_switch_available |-> FALSE, safety_off |-> FALSE]
    /\ armed = [armed |-> FALSE, ready_to_arm |-> FALSE, lockdown |-> FALSE]
    /\ op = "none"
    /\ req = "none"
    /\ ret = "none"
    /\ pc = "idle"
    /\ irq = FALSE
    /\ frame = NoFrame
    /\ seen = Snapshot
    /\ diag = {}
    /\ hpc = "idle"
    /\ hframe = NoHilFrame

\* the locals of a call in progress and the reader's copy
Locals == <<pc, irq, frame, seen, hpc, hframe>>

\* the locals of a hil_state_transition in progress
HilLocals == <<hpc, hframe>>

(***************************************************************************)
(* arming_state_transition, lines 90-176, as one step.                     *)
(***************************************************************************)
arming_state_transition(new) ==
    /\ pc = "idle"
    /\ op' = "arming_state_transition"
    /\ req' = new
    /\ \E mavlink_fd \in MavlinkFds :
          diag' = ArmingDiagnostics(new, status, safety, mavlink_fd)
    /\ IF new = status.arming_state
       THEN /\ ret' = TRANSITION_NOT_CHANGED
            /\ UNCHANGED <<status, armed>>
       ELSE IF ValidTransition(new, status, safety)
            THEN /\ armed' = [armed |-> ArmedFor(RedirectedState(new, status)),
                              ready_to_arm |-> ReadyToArmFor(RedirectedState(new, status)),
                              lockdown |-> Lockdown(status)]
                 /\ status' = [status EXCEPT !.arming_state = RedirectedState(new, status)]
                 /\ ret' = TRANSITION_CHANGED
            ELSE /\ armed' = [armed EXCEPT !.lockdown = Lockdown(status)]
                 /\ ret' = TRANSITION_DENIED
                 /\ UNCHANGED status
    /\ UNCHANGED <<safety, Locals>>

(***************************************************************************)
(* main_state_transition, lines 192-250.                                   *)
(***************************************************************************)
\* ALTCTL asking for the local position instead of the local altitude
MainStateAllowed_local_position(new, st) ==
    CASE new \in {MAIN_STATE_MANUAL, MAIN_STATE_ACRO} -> TRUE
      [] new = MAIN_STATE_ALTCTL ->
            \/ ~st.is_rotary_wing
            \/ st.condition_local_position_valid
            \/ st.condition_global_position_valid
      [] new = MAIN_STATE_POSCTL ->
            \/ st.condition_local_position_valid
            \/ st.condition_global_position_valid
      [] new \in {MAIN_STATE_AUTO_MISSION, MAIN_STATE_AUTO_LOITER} ->
            st.condition_global_position_valid
      [] new = MAIN_STATE_AUTO_RTL ->
            /\ st.condition_global_position_valid
            /\ st.condition_home_position_valid
      [] OTHER -> FALSE

\* lines 198-240: the switch over new_main_state
MainStateAllowed(new, st) ==
    CASE new \in {MAIN_STATE_MANUAL, MAIN_STATE_ACRO} -> TRUE
      [] new = MAIN_STATE_ALTCTL ->
            \/ ~st.is_rotary_wing
            \/ st.condition_local_altitude_valid
            \/ st.condition_global_position_valid
      [] new = MAIN_STATE_POSCTL ->
            \/ st.condition_local_position_valid
            \/ st.condition_global_position_valid
      [] new \in {MAIN_STATE_AUTO_MISSION, MAIN_STATE_AUTO_LOITER} ->
            st.condition_global_position_valid
      [] new = MAIN_STATE_AUTO_RTL ->
            /\ st.condition_global_position_valid
            /\ st.condition_home_position_valid
      [] OTHER -> FALSE

\* the request compared with the current mode before the preconditions
main_state_transition_same_first(new) ==
    /\ ~irq
    /\ op' = "main_state_transition"
    /\ diag' = {}
    /\ req' = new
    /\ IF status.main_state = new
       THEN /\ ret' = TRANSITION_NOT_CHANGED
            /\ UNCHANGED status
       ELSE IF MainStateAllowed(new, status)
            THEN /\ status' = [status EXCEPT !.main_state = new]
                 /\ ret' = TRANSITION_CHANGED
            ELSE /\ ret' = TRANSITION_DENIED
                 /\ UNCHANGED status
    /\ UNCHANGED <<safety, armed, Locals>>

main_state_transition(new) ==
    /\ ~irq
    /\ op' = "main_state_transition"
    /\ diag' = {}
    /\ req' = new
    /\ IF MainStateAllowed(new, status)
       THEN IF status.main_state # new
            THEN /\ status' = [status EXCEPT !.main_state = new]
                 /\ ret' = TRANSITION_CHANGED
            ELSE /\ ret' = TRANSITION_NOT_CHANGED
                 /\ UNCHANGED status
       ELSE /\ ret' = TRANSITION_DENIED
            /\ UNCHANGED status
    /\ UNCHANGED <<safety, armed, Locals>>

(***************************************************************************)
(* hil_state_transition, lines 255-364.  dir_ok is the outcome of          *)
(* opendir("/dev"), io the outcome of open() and ioctl() for each entry of *)
(* the directory.  The timestamp and the publication of line 359-361 are   *)
(* not part of the state.                                                  *)
(***************************************************************************)

\* number of entries readdir() delivers
NumDevices == 2

\* names found in /dev, as strings of characters
DevNames == << <<"a", "c", "c", "e", "l">>,
               <<"t", "t", "y", "S", "0">>,
               <<"g", "y", "r", "o">>,
               <<"n", "u", "l", "l">>,
               <<"m", "m", "c", "s", "d", "0">> >>

DevDir == SubSeq(DevNames, 1, NumDevices)

\* !strncmp(prefix, name, n): the first n characters agree
strncmp_equal(prefix, name, n) ==
    /\ Len(name) >= n
    /\ SubSeq(name, 1, n) = SubSeq(prefix, 1, n)

\* the entries the loop passes over with continue, lines 286-319
SkippedDevice(name) ==
    \/ strncmp_equal(<<"t", "t", "y">>, name, 3)
    \/ strncmp_equal(<<"m", "t", "d">>, name, 3)
    \/ strncmp_equal(<<"r", "a", "m">>, name, 3)
    \/ strncmp_equal(<<"m", "m", "c">>, name, 3)
    \/ name = <<"m", "a", "v", "l", "i", "n", "k">>
    \/ name = <<"c", "o", "n", "s", "o", "l", "e">>
    \/ name = <<"n", "u", "l", "l">>

\* snprintf(devname, sizeof(devname), "/dev/%s", d_name) with char devname[24]
DevPath(name) ==
    LET full == <<"/", "d", "e", "v", "/">> \o name
    IN  IF Len(full) > 23 THEN SubSeq(full, 1, 23) ELSE full

\* what open() and ioctl(DEVIOCSPUBBLOCK) can do to one device
IoOutcomes == {"open_failed", "ERROR", "OK"}

\* the entries of the directory that are opened
OpenedEntries == {i \in 1..Len(DevDir) : ~SkippedDevice(DevDir[i])}

\* lines 323-333 for one entry: the output of warn() or of printf()
DeviceDiagnostics(name, outcome) ==
    IF outcome = "open_failed"
    THEN {Message("warn", "failed opening device %s", <<DevPath(name)>>)}
    ELSE {Message("printf", "Disabling %s: %s", <<DevPath(name), outcome>>)}
\* lines 271-273
HilOnAllowed(st) ==
    st.arming_state \in {ARMING_STATE_INIT, ARMING_STATE_STANDBY,
                         ARMING_STATE_STANDBY_ERROR}

\* switching HIL off allowed while disarmed
HilResult_off_when_disarmed(new, st, dir_ok) ==
    IF st.hil_state = new THEN TRANSITION_NOT_CHANGED
    ELSE IF new = HIL_STATE_OFF
         THEN IF st.arming_state \in {ARMING_STATE_INIT, ARMING_STATE_STANDBY,
                                      ARMING_STATE_STANDBY_ERROR}
              THEN TRANSITION_CHANGED ELSE TRANSITION_DENIED
    ELSE IF st.arming_state \in {ARMING_STATE_INIT, ARMING_STATE_STANDBY,
                                 ARMING_STATE_STANDBY_ERROR} /\ dir_ok
         THEN TRANSITION_CHANGED
    ELSE TRANSITION_DENIED

\* lines 257-355: the value of ret
HilResult(new, st, dir_ok) ==
    IF st.hil_state = new THEN TRANSITION_NOT_CHANGED
    ELSE IF new = HIL_STATE_OFF THEN TRANSITION_DENIED
    ELSE IF HilOnAllowed(st) /\ dir_ok THEN TRANSITION_CHANGED
    ELSE TRANSITION_DENIED

\* lines 266, 337, 342, 346: the messages of one call
HilDiagnostics(new, st, dir_ok, io) ==
    IF st.hil_state = new THEN {}
    ELSE IF new = HIL_STATE_OFF
         THEN {Message("mavlink_log_critical",
                       "#audio: Not switching off HIL (safety)", <<>>)}
    ELSE IF ~HilOnAllowed(st)
         THEN {Message("mavlink_log_critical", "Not switching to HIL when armed", <<>>)}
    ELSE IF dir_ok
         THEN {Message("mavlink_log_critical", "Switched to ON hil state", <<>>)}
              \cup UNION {DeviceDiagnostics(DevDir[i], io[i]) : i \in OpenedEntries}
    ELSE {Message("mavlink_log_info", "FAILED LISTING DEVICE ROOT DIRECTORY", <<>>)}

hil_state_transition(new, dir_ok, io) ==
    /\ ~irq
    /\ op' = "hil_state_transition"
    /\ req' = new
    /\ diag' = HilDiagnostics(new, status, dir_ok, io)
    /\ ret' = HilResult(new, status, dir_ok)
    /\ IF HilResult(new, status, dir_ok) = TRANSITION_CHANGED
       THEN status' = [status EXCEPT !.hil_state = new]
       ELSE UNCHANGED status
    /\ UNCHANGED <<safety, armed, Locals>>

(***************************************************************************)
(* The rest of the commander: it updates the condition flags of the status *)
(* record and the safety record between the calls.                         *)
(***************************************************************************)
UpdateStatus(f) ==
    /\ ~irq
    /\ status' = [status EXCEPT ![f] = ~@]
    /\ op' = "update"
    /\ req' = "none"
    /\ ret' = "none"
    /\ diag' = {}
    /\ UNCHANGED <<safety, armed, Locals>>

UpdateSafety(f) ==
    /\ ~irq
    /\ safety' = [safety EXCEPT ![f] = ~@]
    /\ op' = "update"
    /\ req' = "none"
    /\ ret' = "none"
    /\ diag' = {}
    /\ UNCHANGED <<status, armed, Locals>>

ArmingCall == \E new \in ArmingStates : arming_state_transition(new)
MainCall == \E new \in MainStates : main_state_transition(new)
HilCall ==
    \E new \in HilStates, dir_ok \in BOOLEAN, io \in [OpenedEntries -> IoOutcomes] :
        hil_state_transition(new, dir_ok, io)
StatusUpdate == \E f \in StatusFlags : UpdateStatus(f)
SafetyUpdate == \E f \in SafetyFlags : UpdateSafety(f)

Next ==
    \/ ArmingCall
    \/ MainCall
    \/ HilCall
    \/ StatusUpdate
    \/ SafetyUpdate

Spec == Init /\ [][Next]_vars

(***************************************************************************)
(* arming_state_transition statement by statement, with the interrupt mask *)
(* of irqsave()/irqrestore().  Code of another execution context (a reader *)
(* of the records, hil_state_transition, the updates of the flags) runs    *)
(* only while the interrupts are not masked.                               *)
(***************************************************************************)
ArmingFlags == {"condition_system_sensors_initialized"}

\* the call entered without masking the interrupts
a_irqsave_unmasked(new) ==
    /\ pc = "idle"
    /\ irq' = FALSE
    /\ \E mavlink_fd \in MavlinkFds :
          frame' = [requested |-> new, mavlink_fd |-> mavlink_fd,
                    new_arming_state |-> new,
                    valid_transition |-> FALSE, ret |-> TRANSITION_DENIED]
    /\ diag' = {}
    /\ pc' = "compare"
    /\ UNCHANGED <<status, safety, armed, op, req, ret, seen, HilLocals>>

\* lines 104-106: irqsave(), ret = TRANSITION_DENIED
a_irqsave(new) ==
    /\ pc = "idle"
    /\ irq' = TRUE
    /\ \E mavlink_fd \in MavlinkFds :
          frame' = [requested |-> new, mavlink_fd |-> mavlink_fd,
                    new_arming_state |-> new,
                    valid_transition |-> FALSE, ret |-> TRANSITION_DENIED]
    /\ diag' = {}
    /\ pc' = "compare"
    /\ UNCHANGED <<status, safety, armed, op, req, ret, seen, HilLocals>>

\* lines 109-112
a_compare ==
    /\ pc = "compare"
    /\ IF frame.new_arming_state = status.arming_state
       THEN /\ frame' = [frame EXCEPT !.ret = TRANSITION_NOT_CHANGED]
            /\ pc' = "irqrestore"
       ELSE /\ pc' = "lockdown"
            /\ UNCHANGED frame
    /\ UNCHANGED <<status, safety, armed, op, req, ret, irq, seen, diag, HilLocals>>

\* lines 114-119
a_lockdown ==
    /\ pc = "lockdown"
    /\ armed' = [armed EXCEPT !.lockdown = Lockdown(status)]
    /\ pc' = "validate"
    /\ UNCHANGED <<status, safety, op, req, ret, irq, frame, seen, diag, HilLocals>>

\* lines 122-154 (the "press safety switch first" message of line 132 is
\* sent here, with the interrupts still masked; it writes none of the records)
a_validate ==
    /\ pc = "validate"
    /\ frame' = [frame EXCEPT
                    !.valid_transition = ValidTransition(frame.new_arming_state, status, safety),
                    !.new_arming_state = RedirectedState(frame.new_arming_state, status)]
    /\ pc' = IF ValidTransition(frame.new_arming_state, status, safety)
             THEN "set_armed" ELSE "irqrestore"
    /\ diag' = diag \cup SafetyDiagnostics(frame.new_arming_state, status, safety,
                                           frame.mavlink_fd)
    /\ UNCHANGED <<status, safety, armed, op, req, ret, irq, seen, HilLocals>>

\* line 155
a_set_armed ==
    /\ pc = "set_armed"
    /\ armed' = [armed EXCEPT !.armed = ArmedFor(frame.new_arming_state)]
    /\ pc' = "set_ready_to_arm"
    /\ UNCHANGED <<status, safety, op, req, ret, irq, frame, seen, diag, HilLocals>>

\* line 156
a_set_ready_to_arm ==
    /\ pc = "set_ready_to_arm"
    /\ armed' = [armed EXCEPT !.ready_to_arm = ReadyToArmFor(frame.new_arming_state)]
    /\ pc' = "set_arming_state"
    /\ UNCHANGED <<status, safety, op, req, ret, irq, frame, seen, diag, HilLocals>>

\* lines 157-158
a_set_arming_state ==
    /\ pc = "set_arming_state"
    /\ frame' = [frame EXCEPT !.ret = TRANSITION_CHANGED]
    /\ status' = [status EXCEPT !.arming_state = frame.new_arming_state]
    /\ pc' = "irqrestore"
    /\ UNCHANGED <<safety, armed, op, req, ret, irq, seen, diag, HilLocals>>

\* line 163
a_irqrestore ==
    /\ pc = "irqrestore"
    /\ irq' = FALSE
    /\ pc' = "return"
    /\ UNCHANGED <<status, safety, armed, op, req, ret, frame, seen, diag, HilLocals>>

\* lines 165-175
a_return ==
    /\ pc = "return"
    /\ op' = "arming_state_transition"
    /\ req' = frame.requested
    /\ ret' = frame.ret
    /\ frame' = NoFrame
    /\ pc' = "idle"
    /\ diag' = diag \cup DeniedDiagnostics(frame.ret, status.arming_state,
                                           frame.new_arming_state, frame.mavlink_fd)
    /\ UNCHANGED <<status, safety, armed, irq, seen, HilLocals>>

\* another execution context reads the status and the armed record
Reader ==
    /\ ~irq
    /\ seen' = Snapshot
    /\ UNCHANGED <<status, safety, armed, op, req, ret, pc, irq, frame, diag, HilLocals>>

ArmingEnter == \E new \in ArmingStates : a_irqsave(new)
SensorsUpdate == \E f \in ArmingFlags : UpdateStatus(f)

NextIrq ==
    \/ ArmingEnter
    \/ a_compare
    \/ a_lockdown
    \/ a_validate
    \/ a_set_armed
    \/ a_set_ready_to_arm
    \/ a_set_arming_state
    \/ a_irqrestore
    \/ a_return
    \/ Reader
    \/ HilCall
    \/ SensorsUpdate
    \/ SafetyUpdate

SpecIrq == Init /\ [][NextIrq]_vars

(***************************************************************************)
(* The same operations started from any status record the functions can    *)
(* be handed: every arming state (IN_AIR_RESTORE included) with the armed  *)
(* record that belongs to it, HIL on or off.                               *)
(***************************************************************************)
InitAny ==
    /\ \E a \in ArmingStates, h \in HilStates :
          /\ status = [arming_state |-> a,
                       hil_state |-> h,
                       main_state |-> MAIN_STATE_MANUAL,
                       condition_system_sensors_initialized |-> FALSE,
                       is_rotary_wing |-> FALSE,
                       condition_local_position_valid |-> FALSE,
                       condition_local_altitude_valid |-> FALSE,
                       condition_global_position_valid |-> FALSE,
                       condition_home_position_valid |-> FALSE,
                       rc_signal_lost |-> FALSE,
                       data_link_lost |-> FALSE,
                       nav_state |-> NAVIGATION_STATE_MANUAL,
                       failsafe |-> FALSE]
          /\ \E l \in BOOLEAN :
                armed = [armed |-> ArmedFor(a), ready_to_arm |-> ReadyToArmFor(a),
                         lockdown |-> l]
    /\ safety = [safety_switch_available |-> FALSE, safety_off |-> FALSE]
    /\ op = "none"
    /\ req = "none"
    /\ ret = "none"
    /\ pc = "idle"
    /\ irq = FALSE
    /\ frame = NoFrame
    /\ seen = Snapshot
    /\ diag = {}
    /\ hpc = "idle"
    /\ hframe = NoHilFrame

NextAny ==
    \/ ArmingCall
    \/ HilCall
    \/ SensorsUpdate
    \/ SafetyUpdate

SpecAny == InitAny /\ [][NextAny]_vars

(***************************************************************************)
(* hil_state_transition statement by statement.  The function masks no     *)
(* interrupt; its steps run while no other context has masked them.        *)
(***************************************************************************)

\* lines 255-257: the call, ret = TRANSITION_DENIED
h_enter(new) ==
    /\ hpc = "idle"
    /\ ~irq
    /\ hframe' = [NoHilFrame EXCEPT !.new_state = new]
    /\ hpc' = "compare"
    /\ diag' = {}
    /\ UNCHANGED <<status, safety, armed, op, req, ret, pc, irq, frame, seen>>

\* lines 259-273 and 345-348: the tests of hil_state and arming_state
h_compare ==
    /\ hpc = "compare"
    /\ ~irq
    /\ IF status.hil_state = hframe.new_state
       THEN /\ hframe' = [hframe EXCEPT !.ret = TRANSITION_NOT_CHANGED]
            /\ hpc' = "commit"
            /\ UNCHANGED diag
       ELSE IF hframe.new_state = HIL_STATE_OFF
       THEN /\ hframe' = [hframe EXCEPT !.ret = TRANSITION_DENIED]
            /\ hpc' = "commit"
            /\ diag' = diag \cup {Message("mavlink_log_critical",
                                          "#audio: Not switching off HIL (safety)", <<>>)}
       ELSE IF HilOnAllowed(status)
       THEN /\ hpc' = "opendir"
            /\ UNCHANGED <<hframe, diag>>
       ELSE /\ hframe' = [hframe EXCEPT !.ret = TRANSITION_DENIED]
            /\ hpc' = "commit"
            /\ diag' = diag \cup {Message("mavlink_log_critical",
                                          "Not switching to HIL when armed", <<>>)}
    /\ UNCHANGED <<status, safety, armed, op, req, ret, pc, irq, frame, seen>>

\* lines 278-280 and 340-344: opendir("/dev")
h_opendir(dir_ok) ==
    /\ hpc = "opendir"
    /\ ~irq
    /\ IF dir_ok
       THEN /\ hframe' = [hframe EXCEPT !.dir_ok = TRUE, !.entry = 1]
            /\ hpc' = "readdir"
            /\ UNCHANGED diag
       ELSE /\ hframe' = [hframe EXCEPT !.ret = TRANSITION_DENIED]
            /\ hpc' = "commit"
            /\ diag' = diag \cup {Message("mavlink_log_info",
                                          "FAILED LISTING DEVICE ROOT DIRECTORY", <<>>)}
    /\ UNCHANGED <<status, safety, armed, op, req, ret, pc, irq, frame, seen>>

\* a failed ioctl() leaves the loop and the result DENIED
h_readdir_abort_on_failure(outcome) ==
    /\ hpc = "readdir"
    /\ ~irq
    /\ hframe.entry <= Len(DevDir)
    /\ LET name == DevDir[hframe.entry]
       IN  IF SkippedDevice(name)
           THEN /\ hframe' = [hframe EXCEPT !.entry = @ + 1]
                /\ UNCHANGED <<diag, hpc>>
           ELSE /\ hframe' = [hframe EXCEPT !.entry = @ + 1,
                                             !.failed = @ \/ outcome # "OK"]
                /\ diag' = diag \cup DeviceDiagnostics(name, outcome)
                /\ hpc' = IF outcome = "ERROR" THEN "commit" ELSE hpc
    /\ UNCHANGED <<status, safety, armed, op, req, ret, pc, irq, frame, seen>>

\* lines 284-334: one turn of the loop over the entries of the directory
h_readdir(outcome) ==
    /\ hpc = "readdir"
    /\ ~irq
    /\ hframe.entry <= Len(DevDir)
    /\ LET name == DevDir[hframe.entry]
       IN  IF SkippedDevice(name)
           THEN /\ hframe' = [hframe EXCEPT !.entry = @ + 1]
                /\ UNCHANGED diag
           ELSE /\ hframe' = [hframe EXCEPT !.entry = @ + 1,
                                             !.failed = @ \/ outcome # "OK"]
                /\ diag' = diag \cup DeviceDiagnostics(name, outcome)
    /\ UNCHANGED <<status, safety, armed, op, req, ret, pc, irq, frame, seen, hpc>>

\* lines 284 and 335-337: readdir() returns NULL, closedir(), ret = CHANGED
h_closedir ==
    /\ hpc = "readdir"
    /\ ~irq
    /\ hframe.entry > Len(DevDir)
    /\ hframe' = [hframe EXCEPT !.ret = TRANSITION_CHANGED]
    /\ hpc' = "commit"
    /\ diag' = diag \cup {Message("mavlink_log_critical", "Switched to ON hil state", <<>>)}
    /\ UNCHANGED <<status, safety, armed, op, req, ret, pc, irq, frame, seen>>

\* lines 357-363: the commit of hil_state and the return
h_commit ==
    /\ hpc = "commit"
    /\ ~irq
    /\ IF hframe.ret = TRANSITION_CHANGED
       THEN status' = [status EXCEPT !.hil_state = hframe.new_state]
       ELSE UNCHANGED status
    /\ op' = "hil_state_transition"
    /\ req' = hframe.new_state
    /\ ret' = hframe.ret
    /\ hpc' = "idle"
    /\ UNCHANGED <<safety, armed, pc, irq, frame, seen, diag, hframe>>

HilEnter == \E new \in HilStates : h_enter(new)
HilOpendir == \E dir_ok \in BOOLEAN : h_opendir(dir_ok)
HilReaddir == \E outcome \in IoOutcomes : h_readdir(outcome)

\* arming_state_transition called by the context that calls
\* hil_state_transition: one call after the other
ArmingCallInSequence ==
    /\ hpc = "idle"
    /\ ArmingCall

(***************************************************************************)
(* One execution context: hil_state_transition statement by statement,     *)
(* arming_state_transition between its calls, from any status record.      *)
(***************************************************************************)
NextHil ==
    \/ HilEnter
    \/ h_compare
    \/ HilOpendir
    \/ HilReaddir
    \/ h_closedir
    \/ h_commit
    \/ ArmingCallInSequence
    \/ SensorsUpdate
    \/ SafetyUpdate

SpecHil == InitAny /\ [][NextHil]_vars

(***************************************************************************)
(* Two execution contexts on the same records: one inside                  *)
(* arming_state_transition, one inside hil_state_transition, each          *)
(* statement by statement.                                                 *)
(***************************************************************************)
NextConc ==
    \/ ArmingEnter
    \/ a_compare
    \/ a_lockdown
    \/ a_validate
    \/ a_set_armed
    \/ a_set_ready_to_arm
    \/ a_set_arming_state
    \/ a_irqrestore
    \/ a_return
    \/ HilEnter
    \/ h_compare
    \/ HilOpendir
    \/ HilReaddir
    \/ h_closedir
    \/ h_commit
    \/ SensorsUpdate
    \/ SafetyUpdate

SpecConc == Init /\ [][NextConc]_vars

(***************************************************************************)
(* set_nav_state, lines 369-474.                                           *)
(***************************************************************************)
\* line 373
NavArmed(st) ==
    st.arming_state = ARMING_STATE_ARMED \/ st.arming_state = ARMING_STATE_ARMED_ERROR

\* AUTO_LOITER asking for the global instead of the local position
NavFailsafe_loiter_global(st) ==
    CASE st.main_state \in {MAIN_STATE_ACRO, MAIN_STATE_MANUAL,
                            MAIN_STATE_ALTCTL, MAIN_STATE_POSCTL} ->
            st.rc_signal_lost /\ NavArmed(st)
      [] st.main_state = MAIN_STATE_AUTO_MISSION ->
            (st.data_link_lost \/ ~st.condition_global_position_valid) /\ NavArmed(st)
      [] st.main_state = MAIN_STATE_AUTO_LOITER ->
            (st.data_link_lost \/ ~st.condition_global_position_valid) /\ NavArmed(st)
      [] st.main_state = MAIN_STATE_AUTO_RTL ->
            (~st.condition_global_position_valid \/ ~st.condition_home_position_valid)
                /\ NavArmed(st)
      [] OTHER -> FALSE

\* lines 374-456: the value of failsafe after the switch over main_state
NavFailsafe(st) ==
    CASE st.main_state \in {MAIN_STATE_ACRO, MAIN_STATE_MANUAL,
                            MAIN_STATE_ALTCTL, MAIN_STATE_POSCTL} ->
            st.rc_signal_lost /\ NavArmed(st)
      [] st.main_state = MAIN_STATE_AUTO_MISSION ->
            (st.data_link_lost \/ ~st.condition_global_position_valid) /\ NavArmed(st)
      [] st.main_state = MAIN_STATE_AUTO_LOITER ->
            (st.data_link_lost \/ ~st.condition_local_position_valid) /\ NavArmed(st)
      [] st.main_state = MAIN_STATE_AUTO_RTL ->
            (~st.condition_global_position_valid \/ ~st.condition_home_position_valid)
                /\ NavArmed(st)
      [] OTHER -> FALSE

\* AUTO_MISSION and AUTO_RTL kept while disarmed
NavNormal_kept_when_disarmed(st) ==
    CASE st.main_state = MAIN_STATE_ACRO -> NAVIGATION_STATE_ACRO
      [] st.main_state = MAIN_STATE_MANUAL -> NAVIGATION_STATE_MANUAL
      [] st.main_state = MAIN_STATE_ALTCTL -> NAVIGATION_STATE_ALTCTL
      [] st.main_state = MAIN_STATE_POSCTL -> NAVIGATION_STATE_POSCTL
      [] st.main_state = MAIN_STATE_AUTO_MISSION -> NAVIGATION_STATE_AUTO_MISSION
      [] st.main_state = MAIN_STATE_AUTO_LOITER -> NAVIGATION_STATE_AUTO_LOITER
      [] st.main_state = MAIN_STATE_AUTO_RTL -> NAVIGATION_STATE_AUTO_RTL
      [] OTHER -> st.nav_state

\* lines 386-452: nav_state of the normal (non-failsafe) mode
NavNormal(st) ==
    CASE st.main_state = MAIN_STATE_ACRO -> NAVIGATION_STATE_ACRO
      [] st.main_state = MAIN_STATE_MANUAL -> NAVIGATION_STATE_MANUAL
      [] st.main_state = MAIN_STATE_ALTCTL -> NAVIGATION_STATE_ALTCTL
      [] st.main_state = MAIN_STATE_POSCTL -> NAVIGATION_STATE_POSCTL
      [] st.main_state = MAIN_STATE_AUTO_MISSION ->
            IF NavArmed(st) THEN NAVIGATION_STATE_AUTO_MISSION
            ELSE NAVIGATION_STATE_AUTO_LOITER
      [] st.main_state = MAIN_STATE_AUTO_LOITER -> NAVIGATION_STATE_AUTO_LOITER
      [] st.main_state = MAIN_STATE_AUTO_RTL ->
            IF NavArmed(st) THEN NAVIGATION_STATE_AUTO_RTL
            ELSE NAVIGATION_STATE_AUTO_LOITER
      [] OTHER -> st.nav_state

\* the cascade with the local altitude asked before the local position
NavFailsafeState_descend_first(st) ==
    IF st.condition_global_position_valid /\ st.condition_home_position_valid
    THEN NAVIGATION_STATE_AUTO_RTL
    ELSE IF st.condition_local_altitude_valid THEN NAVIGATION_STATE_DESCEND
    ELSE IF st.condition_local_position_valid THEN NAVIGATION_STATE_LAND
    ELSE NAVIGATION_STATE_TERMINATION

\* lines 458-471: nav_state in failsafe
NavFailsafeState(st) ==
    IF st.condition_global_position_valid /\ st.condition_home_position_valid
    THEN NAVIGATION_STATE_AUTO_RTL
    ELSE IF st.condition_local_position_valid THEN NAVIGATION_STATE_LAND
    ELSE IF st.condition_local_altitude_valid THEN NAVIGATION_STATE_DESCEND
    ELSE NAVIGATION_STATE_TERMINATION

\* lines 374-471: the nav_state the call leaves
NavResult(st) == IF NavFailsafe(st) THEN NavFailsafeState(st) ELSE NavNormal(st)

set_nav_state ==
    /\ ~irq
    /\ op' = "set_nav_state"
    /\ req' = "none"
    /\ diag' = {}
    /\ status' = [status EXCEPT !.failsafe = NavFailsafe(status),
                                !.nav_state = NavResult(status)]
    /\ ret' = (NavResult(status) # status.nav_state)
    /\ UNCHANGED <<safety, armed, Locals>>

\* the flags set_nav_state and main_state_transition read
NavFlags == {"rc_signal_lost", "data_link_lost", "is_rotary_wing",
             "condition_local_position_valid", "condition_local_altitude_valid",
             "condition_global_position_valid", "condition_home_position_valid"}

NavUpdate == \E f \in NavFlags : UpdateStatus(f)

\* main_state_transition and set_nav_state in every arming state
InitNav ==
    /\ \E a \in ArmingStates :
          /\ status = [arming_state |-> a,
                       hil_state |-> HIL_STATE_OFF,
                       main_state |-> MAIN_STATE_MANUAL,
                       condition_system_sensors_initialized |-> FALSE,
                       is_rotary_wing |-> FALSE,
                       condition_local_position_valid |-> FALSE,
                       condition_local_altitude_valid |-> FALSE,
                       condition_global_position_valid |-> FALSE,
                       condition_home_position_valid |-> FALSE,
                       rc_signal_lost |-> FALSE,
                       data_link_lost |-> FALSE,
                       nav_state |-> NAVIGATION_STATE_MANUAL,
                       failsafe |-> FALSE]
          /\ armed = [armed |-> ArmedFor(a), ready_to_arm |-> ReadyToArmFor(a),
                      lockdown |-> FALSE]
    /\ safety = [safety_switch_available |-> FALSE, safety_off |-> FALSE]
    /\ op = "none"
    /\ req = "none"
    /\ ret = "none"
    /\ pc = "idle"
    /\ irq = FALSE
    /\ frame = NoFrame
    /\ seen = Snapshot
    /\ diag = {}
    /\ hpc = "idle"
    /\ hframe = NoHilFrame

NextNav ==
    \/ set_nav_state
    \/ MainCall
    \/ NavUpdate

SpecNav == InitNav /\ [][NextNav]_vars

(***************************************************************************)
(* Properties                                                              *)
(***************************************************************************)
ArmingStep == op' = "arming_state_transition"
HilStep == op' = "hil_state_transition"

\* C1: in every reachable state armed.armed is true iff arming_state is
\* ARMED or ARMED_ERROR, and armed.ready_to_arm is true iff arming_state is
\* ARMED or STANDBY.
C1_ArmedFlagsFollowArmingState ==
    /\ armed.armed <=>
          status.arming_state \in {ARMING_STATE_ARMED, ARMING_STATE_ARMED_ERROR}
    /\ armed.ready_to_arm <=>
          status.arming_state \in {ARMING_STATE_ARMED, ARMING_STATE_STANDBY}

C1_Witness ==
    /\ op = "arming_state_transition"
    /\ ret = TRANSITION_CHANGED
    /\ status.arming_state = ARMING_STATE_ARMED_ERROR
    /\ armed.armed
    /\ ~armed.ready_to_arm

\* C2: a request for ARMED from STANDBY or IN_AIR_RESTORE is DENIED exactly
\* when the current state is not IN_AIR_RESTORE, HIL is off, a safety switch
\* is available and safety_off is false; otherwise it returns CHANGED with
\* arming_state = ARMED, armed and ready_to_arm true.  Every step from
\* STANDBY to ARMED has HIL on, no safety switch, or the switch off.
C2_ArmedRequest ==
    [][ /\ ( /\ ArmingStep
             /\ req' = ARMING_STATE_ARMED
             /\ status.arming_state \in {ARMING_STATE_STANDBY, ARMING_STATE_IN_AIR_RESTORE} )
           => IF /\ status.arming_state # ARMING_STATE_IN_AIR_RESTORE
                 /\ status.hil_state = HIL_STATE_OFF
                 /\ safety.safety_switch_available
                 /\ ~safety.safety_off
              THEN /\ ret' = TRANSITION_DENIED
                   /\ status'.arming_state = status.arming_state
              ELSE /\ ret' = TRANSITION_CHANGED
                   /\ status'.arming_state = ARMING_STATE_ARMED
                   /\ armed'.armed
                   /\ armed'.ready_to_arm
        /\ ( /\ status.arming_state = ARMING_STATE_STANDBY
             /\ status'.arming_state = ARMING_STATE_ARMED )
           => \/ status.hil_state = HIL_STATE_ON
              \/ ~safety.safety_switch_available
              \/ safety.safety_off
      ]_vars

C2_Witness ==
    /\ op = "arming_state_transition"
    /\ req = ARMING_STATE_ARMED
    /\ ret = TRANSITION_CHANGED
    /\ status.arming_state = ARMING_STATE_ARMED
    /\ status.hil_state = HIL_STATE_OFF
    /\ safety.safety_switch_available
    /\ safety.safety_off
    /\ armed.armed
    /\ armed.ready_to_arm

\* C3 as stated: a request for STANDBY with the sensors not initialized is
\* DENIED and leaves arming_state unchanged from every current state other
\* than STANDBY.
C3_Original ==
    [][ ( /\ ArmingStep
          /\ req' = ARMING_STATE_STANDBY
          /\ status.arming_state # ARMING_STATE_STANDBY
          /\ ~status.condition_system_sensors_initialized )
        => /\ ret' = TRANSITION_DENIED
           /\ status'.arming_state = status.arming_state
      ]_vars

\* C3 as amended: a request for STANDBY with the sensors not initialized is
\* DENIED and leaves arming_state unchanged from every current state other
\* than STANDBY and ARMED_ERROR, whatever hil_state and the safety flags are.
C3_SensorsGateStandby ==
    [][ ( /\ ArmingStep
          /\ req' = ARMING_STATE_STANDBY
          /\ status.arming_state \notin {ARMING_STATE_STANDBY, ARMING_STATE_ARMED_ERROR}
          /\ ~status.condition_system_sensors_initialized )
        => /\ ret' = TRANSITION_DENIED
           /\ status'.arming_state = status.arming_state
      ]_vars

C3_Witness ==
    /\ op = "arming_state_transition"
    /\ req = ARMING_STATE_STANDBY
    /\ ret = TRANSITION_DENIED
    /\ status.arming_state = ARMING_STATE_ARMED
    /\ status.hil_state = HIL_STATE_ON
    /\ ~status.condition_system_sensors_initialized

\* C4: a request for STANDBY in ARMED_ERROR returns CHANGED and leaves
\* arming_state = STANDBY_ERROR, whatever hil_state, the safety flags and
\* the sensor flag are; no step goes from ARMED_ERROR to STANDBY.
C4_ArmedErrorRedirect ==
    [][ /\ ( /\ ArmingStep
             /\ req' = ARMING_STATE_STANDBY
             /\ status.arming_state = ARMING_STATE_ARMED_ERROR )
           => /\ ret' = TRANSITION_CHANGED
              /\ status'.arming_state = ARMING_STATE_STANDBY_ERROR
        /\ ~( /\ status.arming_state = ARMING_STATE_ARMED_ERROR
              /\ status'.arming_state = ARMING_STATE_STANDBY )
      ]_vars

C4_Witness ==
    /\ op = "arming_state_transition"
    /\ req = ARMING_STATE_STANDBY
    /\ ret = TRANSITION_CHANGED
    /\ status.arming_state = ARMING_STATE_STANDBY_ERROR
    /\ status.hil_state = HIL_STATE_ON
    /\ ~status.condition_system_sensors_initialized

\* C5: whenever arming_state_transition returns DENIED or NOT_CHANGED,
\* arming_state, armed.armed, armed.ready_to_arm and armed.lockdown have the
\* values they had before the call.
C5_FailedCallChangesNothing ==
    [][ ( /\ ArmingStep
          /\ ret' \in {TRANSITION_DENIED, TRANSITION_NOT_CHANGED} )
        => /\ status'.arming_state = status.arming_state
           /\ armed'.armed = armed.armed
           /\ armed'.ready_to_arm = armed.ready_to_arm
           /\ armed'.lockdown = armed.lockdown
      ]_vars

\* C6 as stated: once arming_state is REBOOT no operation changes it.
C6_Original ==
    [][ status.arming_state = ARMING_STATE_REBOOT
        => status'.arming_state = ARMING_STATE_REBOOT ]_vars

\* C6 as amended: once arming_state is REBOOT with hil_state OFF, no
\* operation changes arming_state or switches HIL on; with hil_state ON the
\* only step that leaves REBOOT is a request for STANDBY with the sensors
\* initialized, which leads to STANDBY.
C6_RebootTerminalWithoutHil ==
    [][ /\ ( /\ status.arming_state = ARMING_STATE_REBOOT
             /\ status.hil_state = HIL_STATE_OFF )
           => /\ status'.arming_state = ARMING_STATE_REBOOT
              /\ status'.hil_state = HIL_STATE_OFF
        /\ ( /\ status.arming_state = ARMING_STATE_REBOOT
             /\ status'.arming_state # ARMING_STATE_REBOOT )
           => /\ status.hil_state = HIL_STATE_ON
              /\ status.condition_system_sensors_initialized
              /\ ArmingStep
              /\ req' = ARMING_STATE_STANDBY
              /\ status'.arming_state = ARMING_STATE_STANDBY
      ]_vars

C6_Witness ==
    /\ op = "arming_state_transition"
    /\ req = ARMING_STATE_STANDBY
    /\ ret = TRANSITION_DENIED
    /\ status.arming_state = ARMING_STATE_REBOOT
    /\ status.hil_state = HIL_STATE_OFF
    /\ status.condition_system_sensors_initialized

\* the legality table as the specification prints it: the pairs
\* <<requested, current>> marked T
LegalPairs ==
    {<<0, 0>>, <<0, 1>>,
     <<1, 0>>, <<1, 1>>, <<1, 2>>, <<1, 3>>,
     <<2, 1>>, <<2, 2>>, <<2, 6>>,
     <<3, 2>>, <<3, 3>>,
     <<4, 0>>, <<4, 1>>, <<4, 3>>, <<4, 4>>,
     <<5, 0>>, <<5, 1>>, <<5, 4>>, <<5, 5>>, <<5, 6>>}

\* C7: a request for a different state whose table entry is false, and to
\* which the HIL standby override does not apply, is DENIED and leaves
\* arming_state unchanged; every step that changes arming_state is a
\* table-true pair, the ARMED_ERROR to STANDBY_ERROR redirect, or a HIL-on
\* move to STANDBY.
C7_TableFalseIsDenied ==
    [][ /\ ( /\ ArmingStep
             /\ req' # status.arming_state
             /\ <<req', status.arming_state>> \notin LegalPairs
             /\ ~(status.hil_state = HIL_STATE_ON /\ req' = ARMING_STATE_STANDBY) )
           => /\ ret' = TRANSITION_DENIED
              /\ status'.arming_state = status.arming_state
        /\ status'.arming_state # status.arming_state
           => \/ <<status'.arming_state, status.arming_state>> \in LegalPairs
              \/ /\ status.arming_state = ARMING_STATE_ARMED_ERROR
                 /\ status'.arming_state = ARMING_STATE_STANDBY_ERROR
              \/ /\ status.hil_state = HIL_STATE_ON
                 /\ status'.arming_state = ARMING_STATE_STANDBY
      ]_vars

C7_Witness ==
    /\ op = "arming_state_transition"
    /\ req = ARMING_STATE_INIT
    /\ ret = TRANSITION_DENIED
    /\ status.arming_state = ARMING_STATE_ARMED
    /\ status.hil_state = HIL_STATE_ON

\* C8: every request for IN_AIR_RESTORE from a different state is DENIED,
\* and no state reachable from INIT has arming_state = IN_AIR_RESTORE.
C8_InAirRestoreNeverEntered ==
    /\ [](status.arming_state # ARMING_STATE_IN_AIR_RESTORE)
    /\ [][ ( /\ ArmingStep
             /\ req' = ARMING_STATE_IN_AIR_RESTORE
             /\ status.arming_state # ARMING_STATE_IN_AIR_RESTORE )
           => /\ ret' = TRANSITION_DENIED
              /\ status'.arming_state = status.arming_state
         ]_vars

C8_Witness ==
    /\ op = "arming_state_transition"
    /\ req = ARMING_STATE_IN_AIR_RESTORE
    /\ ret = TRANSITION_DENIED
    /\ status.arming_state = ARMING_STATE_ARMED

\* C9: whenever code of another execution context can run, the armed and
\* ready_to_arm flags agree with arming_state, and so does every copy a
\* reader has taken; from the first write of a call (armed.lockdown) until
\* irqrestore() no other context can run, so the writes of one call become
\* visible together.
C9_NoTornRead ==
    /\ seen.armed = ArmedFor(seen.arming_state)
    /\ seen.ready_to_arm = ReadyToArmFor(seen.arming_state)
    /\ ~irq => /\ armed.armed = ArmedFor(status.arming_state)
               /\ armed.ready_to_arm = ReadyToArmFor(status.arming_state)
    /\ pc \in {"validate", "set_armed", "set_ready_to_arm", "set_arming_state",
                "irqrestore"} => irq

\* a reader has run after the writes of a call that is still in progress
C9_Witness ==
    /\ pc = "return"
    /\ frame.ret = TRANSITION_CHANGED
    /\ frame.new_arming_state = ARMING_STATE_ARMED
    /\ seen = Snapshot
    /\ seen.arming_state = ARMING_STATE_ARMED

\* C10: once hil_state is ON it stays ON; a request for OFF while it is ON
\* returns DENIED in every arming state.
C10_HilOnIsAbsorbing ==
    [][ /\ status.hil_state = HIL_STATE_ON => status'.hil_state = HIL_STATE_ON
        /\ ( /\ HilStep
             /\ req' = HIL_STATE_OFF
             /\ status.hil_state = HIL_STATE_ON )
           => ret' = TRANSITION_DENIED
      ]_vars

C10_Witness ==
    /\ op = "hil_state_transition"
    /\ req = HIL_STATE_OFF
    /\ ret = TRANSITION_DENIED
    /\ status.hil_state = HIL_STATE_ON
    /\ status.arming_state = ARMING_STATE_STANDBY

NavStep == op' = "set_nav_state"
MainStep == op' = "main_state_transition"

\* the vehicle is armed when a call starts
IsArmed == status.arming_state \in {ARMING_STATE_ARMED, ARMING_STATE_ARMED_ERROR}

\* the failsafe trigger of the main_state a call of set_nav_state finds
FailsafeTrigger ==
    CASE status.main_state \in {MAIN_STATE_ACRO, MAIN_STATE_MANUAL,
                                MAIN_STATE_ALTCTL, MAIN_STATE_POSCTL} ->
            status.rc_signal_lost
      [] status.main_state = MAIN_STATE_AUTO_MISSION ->
            status.data_link_lost \/ ~status.condition_global_position_valid
      [] status.main_state = MAIN_STATE_AUTO_LOITER ->
            status.data_link_lost \/ ~status.condition_local_position_valid
      [] status.main_state = MAIN_STATE_AUTO_RTL ->
            ~status.condition_global_position_valid
                \/ ~status.condition_home_position_valid

\* the direct mapping of main_state to a navigation state
DirectMapping ==
    CASE status.main_state = MAIN_STATE_ACRO -> NAVIGATION_STATE_ACRO
      [] status.main_state = MAIN_STATE_MANUAL -> NAVIGATION_STATE_MANUAL
      [] status.main_state = MAIN_STATE_ALTCTL -> NAVIGATION_STATE_ALTCTL
      [] status.main_state = MAIN_STATE_POSCTL -> NAVIGATION_STATE_POSCTL
      [] status.main_state = MAIN_STATE_AUTO_LOITER -> NAVIGATION_STATE_AUTO_LOITER
      [] status.main_state = MAIN_STATE_AUTO_MISSION ->
            IF IsArmed THEN NAVIGATION_STATE_AUTO_MISSION ELSE NAVIGATION_STATE_AUTO_LOITER
      [] status.main_state = MAIN_STATE_AUTO_RTL ->
            IF IsArmed THEN NAVIGATION_STATE_AUTO_RTL ELSE NAVIGATION_STATE_AUTO_LOITER

\* C12: after set_nav_state failsafe is true iff the vehicle is armed and the
\* trigger of the current main_state holds; when failsafe is false nav_state
\* is the direct mapping of main_state (AUTO_MISSION and AUTO_RTL only while
\* armed), whatever failsafe and nav_state were on entry.
C12_FailsafeIffArmedAndTrigger ==
    [][ NavStep
        => /\ status'.failsafe = (IsArmed /\ FailsafeTrigger)
           /\ ~status'.failsafe => status'.nav_state = DirectMapping
      ]_vars

C12_Witness ==
    /\ op = "set_nav_state"
    /\ status.failsafe
    /\ status.arming_state = ARMING_STATE_ARMED
    /\ status.main_state = MAIN_STATE_AUTO_LOITER
    /\ status.condition_global_position_valid
    /\ ~status.condition_local_position_valid
    /\ ~status.data_link_lost

\* C13: whenever set_nav_state leaves failsafe true, nav_state is AUTO_RTL
\* if global and home position are valid, otherwise LAND if the local
\* position is valid, otherwise DESCEND if the local altitude is valid,
\* otherwise TERMINATION.
C13_FailsafeCascade ==
    [][ (NavStep /\ status'.failsafe)
        => status'.nav_state =
              IF status.condition_global_position_valid
                    /\ status.condition_home_position_valid
              THEN NAVIGATION_STATE_AUTO_RTL
              ELSE IF status.condition_local_position_valid
                   THEN NAVIGATION_STATE_LAND
                   ELSE IF status.condition_local_altitude_valid
                        THEN NAVIGATION_STATE_DESCEND
                        ELSE NAVIGATION_STATE_TERMINATION
      ]_vars

C13_Witness ==
    /\ op = "set_nav_state"
    /\ status.failsafe
    /\ status.arming_state = ARMING_STATE_ARMED
    /\ status.main_state = MAIN_STATE_AUTO_RTL
    /\ ~status.condition_home_position_valid
    /\ status.condition_local_position_valid
    /\ status.condition_local_altitude_valid
    /\ status.nav_state = NAVIGATION_STATE_LAND

\* C14: on a vehicle that is not armed set_nav_state ends with failsafe
\* false, with nav_state AUTO_LOITER for main_state AUTO_MISSION or AUTO_RTL,
\* and never with nav_state AUTO_MISSION, AUTO_RTL, LAND, DESCEND or
\* TERMINATION.
C14_DisarmedNeverFailsafe ==
    [][ (NavStep /\ ~IsArmed)
        => /\ ~status'.failsafe
           /\ status.main_state \in {MAIN_STATE_AUTO_MISSION, MAIN_STATE_AUTO_RTL}
                 => status'.nav_state = NAVIGATION_STATE_AUTO_LOITER
           /\ status'.nav_state \notin
                 {NAVIGATION_STATE_AUTO_MISSION, NAVIGATION_STATE_AUTO_RTL,
                  NAVIGATION_STATE_LAND, NAVIGATION_STATE_DESCEND,
                  NAVIGATION_STATE_TERMINATION}
      ]_vars

C14_Witness ==
    /\ op = "set_nav_state"
    /\ status.arming_state = ARMING_STATE_STANDBY
    /\ status.main_state = MAIN_STATE_AUTO_MISSION
    /\ status.data_link_lost
    /\ ~status.condition_global_position_valid
    /\ ~status.failsafe
    /\ status.nav_state = NAVIGATION_STATE_AUTO_LOITER

Granted == ret' \in {TRANSITION_CHANGED, TRANSITION_NOT_CHANGED}

\* C15 as stated: a request for ALTCTL is granted iff the vehicle is not
\* rotary-wing, or the local position or the global position is valid.
C15_Original ==
    [][ (MainStep /\ req' = MAIN_STATE_ALTCTL)
        => (Granted <=> \/ ~status.is_rotary_wing
                        \/ status.condition_local_position_valid
                        \/ status.condition_global_position_valid)
      ]_vars

\* C15 as amended: a request for ALTCTL is granted iff the vehicle is not
\* rotary-wing, or the local altitude or the global position is valid;
\* otherwise it is DENIED.
C15_AltctlNeedsAltitude ==
    [][ (MainStep /\ req' = MAIN_STATE_ALTCTL)
        => /\ Granted <=> \/ ~status.is_rotary_wing
                          \/ status.condition_local_altitude_valid
                          \/ status.condition_global_position_valid
           /\ ~Granted => ret' = TRANSITION_DENIED
      ]_vars

C15_Witness ==
    /\ op = "main_state_transition"
    /\ req = MAIN_STATE_ALTCTL
    /\ ret = TRANSITION_CHANGED
    /\ status.main_state = MAIN_STATE_ALTCTL
    /\ status.is_rotary_wing
    /\ status.condition_local_altitude_valid
    /\ ~status.condition_local_position_valid
    /\ ~status.condition_global_position_valid

\* the precondition of the requested mode, for the modes other than ALTCTL
Precondition(m) ==
    CASE m \in {MAIN_STATE_MANUAL, MAIN_STATE_ACRO} -> TRUE
      [] m = MAIN_STATE_POSCTL ->
            status.condition_local_position_valid
                \/ status.condition_global_position_valid
      [] m \in {MAIN_STATE_AUTO_MISSION, MAIN_STATE_AUTO_LOITER} ->
            status.condition_global_position_valid
      [] m = MAIN_STATE_AUTO_RTL ->
            status.condition_global_position_valid
                /\ status.condition_home_position_valid

\* C16: main_state_transition evaluates the precondition of the requested
\* mode on every call, also for the mode already active; a failed
\* precondition gives DENIED with main_state unchanged, a passed one
\* NOT_CHANGED for the active mode and otherwise CHANGED with main_state set
\* to the request.  No call changes arming_state, hil_state, nav_state or
\* failsafe.
C16_MainStatePreconditions ==
    [][ MainStep
        => /\ req' # MAIN_STATE_ALTCTL
                 => (ret' = TRANSITION_DENIED <=> ~Precondition(req'))
           /\ ret' = TRANSITION_DENIED => status'.main_state = status.main_state
           /\ ret' = TRANSITION_NOT_CHANGED
                 => /\ status.main_state = req'
                    /\ status'.main_state = status.main_state
           /\ ret' = TRANSITION_CHANGED
                 => /\ status.main_state # req'
                    /\ status'.main_state = req'
           /\ ret' \in {TRANSITION_DENIED, TRANSITION_NOT_CHANGED, TRANSITION_CHANGED}
           /\ status'.arming_state = status.arming_state
           /\ status'.hil_state = status.hil_state
           /\ status'.nav_state = status.nav_state
           /\ status'.failsafe = status.failsafe
      ]_vars

C16_Witness ==
    /\ op = "main_state_transition"
    /\ req = MAIN_STATE_POSCTL
    /\ ret = TRANSITION_DENIED
    /\ status.main_state = MAIN_STATE_POSCTL
    /\ status.nav_state = NAVIGATION_STATE_POSCTL

\* C17: every call of arming_state_transition, main_state_transition or
\* hil_state_transition that returns DENIED has emitted at least one
\* diagnostic, and for arming_state_transition one that names the current
\* and the requested state.
C17_NoSilentDenial ==
    [][ ( /\ op' \in {"arming_state_transition", "main_state_transition",
                      "hil_state_transition"}
          /\ ret' = TRANSITION_DENIED )
        => /\ diag' # {}
           /\ ArmingStep
                 => \E m \in diag' :
                       m.args = <<state_names[status.arming_state + 1],
                                  state_names[req' + 1]>>
      ]_vars

\* C18: with the operations executed one at a time from INIT, every
\* reachable state with hil_state ON and armed.armed true has armed.lockdown
\* true, and is_safe returns true in every reachable state with hil_state ON.
C18_ArmedInHilIsLockedDown ==
    /\ (status.hil_state = HIL_STATE_ON /\ armed.armed) => armed.lockdown
    /\ status.hil_state = HIL_STATE_ON => is_safe(status, safety, armed)

C18_Witness ==
    /\ op = "arming_state_transition"
    /\ ret = TRANSITION_CHANGED
    /\ status.arming_state = ARMING_STATE_ARMED
    /\ status.hil_state = HIL_STATE_ON
    /\ armed.armed
    /\ armed.lockdown
    /\ ~safety.safety_switch_available

\* the arming states of a vehicle whose armed error has not been cleared
ErrorStates == {ARMING_STATE_ARMED_ERROR, ARMING_STATE_STANDBY_ERROR,
                ARMING_STATE_REBOOT}

\* C20: while hil_state stays OFF, no step leaves the set ARMED_ERROR,
\* STANDBY_ERROR, REBOOT: once arming_state is ARMED_ERROR it is never again
\* ARMED, STANDBY or INIT.
C20_ArmedErrorNotCleared ==
    [][ ( /\ status.arming_state \in ErrorStates
          /\ status.hil_state = HIL_STATE_OFF
          /\ status'.hil_state = HIL_STATE_OFF )
        => status'.arming_state \in ErrorStates
      ]_vars

C20_Witness ==
    /\ op = "arming_state_transition"
    /\ req = ARMING_STATE_STANDBY
    /\ ret = TRANSITION_CHANGED
    /\ status.arming_state = ARMING_STATE_STANDBY_ERROR
    /\ status.hil_state = HIL_STATE_OFF

\* the step that leaves a statement-by-statement hil_state_transition
HilReturn == hpc = "commit" /\ hpc' = "idle"

HilOnArmingStates == {ARMING_STATE_INIT, ARMING_STATE_STANDBY, ARMING_STATE_STANDBY_ERROR}

\* C11: hil_state_transition(ON) from OFF returns CHANGED and commits ON
\* when the arming state is INIT, STANDBY or STANDBY_ERROR and the device
\* root could be listed, whatever open() and ioctl() did to the single
\* devices; in every other arming state, and when the device root could
\* not be listed, it returns DENIED and hil_state stays OFF.
C11_HilOnResult ==
    [][(HilReturn /\ hframe.new_state = HIL_STATE_ON /\ status.hil_state = HIL_STATE_OFF)
        => IF status.arming_state \in HilOnArmingStates /\ hframe.dir_ok
           THEN ret' = TRANSITION_CHANGED /\ status'.hil_state = HIL_STATE_ON
           ELSE ret' = TRANSITION_DENIED /\ status'.hil_state = HIL_STATE_OFF]_vars

\* a call that returned CHANGED although a device could not be blocked
C11_Witness ==
    /\ hpc = "idle"
    /\ op = "hil_state_transition"
    /\ ret = TRANSITION_CHANGED
    /\ status.hil_state = HIL_STATE_ON
    /\ hframe.failed
    /\ \E m \in diag : m.sink = "printf" /\ m.args[2] = "ERROR"

\* C19: with arming_state_transition and hil_state_transition in different
\* execution contexts, the step that writes hil_state = ON finds the arming
\* state INIT, STANDBY or STANDBY_ERROR, and no state has hil_state ON,
\* armed.armed true and armed.lockdown false.
C19_HilNeverCommittedWhileArmed ==
    /\ [](~(status.hil_state = HIL_STATE_ON /\ armed.armed /\ ~armed.lockdown))
    /\ [][(status.hil_state = HIL_STATE_OFF /\ status'.hil_state = HIL_STATE_ON)
           => status.arming_state \in HilOnArmingStates]_vars

====
